---- MODULE Spec2Model ----
(***************************************************************************)
(* IntegralRangeVector<T> (src/src/IntegralRangeVector.h) and the N-ary    *)
(* merge functions intersect_ranges / unite_ranges (src/src/RangeMerger.h) *)
(* as state machines.  The model is the build with assertions compiled in: *)
(* a failed assert aborts the program.                                     *)
(*                                                                         *)
(* T is an unsigned type of BITS bits.  Arithmetic on T follows the        *)
(* integral promotions of the narrow instantiations (uint8_t, uint16_t):   *)
(* T - T and T + 1 are computed as int, a store into a T truncates, and an *)
(* int added to a size_t is converted modulo 2^SizeBits.                   *)
(***************************************************************************)
EXTENDS Integers, Sequences, FiniteSets, TLC

\* ------------------------------------------------------------------------
\* The element type T and size_t
\* ------------------------------------------------------------------------
BITS == 3
SizeBits == 8

TMax == 2^BITS - 1
mask == TMax - (TMax \div 2)
SizeMod == 2^SizeBits
max_size == (SizeMod \div 2) - 1

Words == 0..TMax
ToT(x) == x % (TMax + 1)
ToSize(x) == x % SizeMod

\* mask & w, w & ~mask, w | mask
Tagged(w) == (w \div mask) % 2 = 1
Untag(w) == IF Tagged(w) THEN w - mask ELSE w
Tag(w) == IF Tagged(w) THEN w ELSE w + mask

NULLOPT == -1

\* ------------------------------------------------------------------------
\* Model bounds
\* ------------------------------------------------------------------------
MaxWords == 4
MaxInputs == 2
MaxTotal == 4
MaxPastEnd == 1

\* ------------------------------------------------------------------------
\* const_iterator: a position base in 1..Len(W)+1 (end = Len(W)+1)
\* ------------------------------------------------------------------------
\* calculate_value() that leaves the tag bit in the second endpoint of a pair
calculate_value_second_unmasked(W, base) ==
    IF base >= Len(W) + 1 THEN <<0, 0>>
    ELSE IF Tagged(W[base]) THEN <<Untag(W[base]), W[base + 1]>>
    ELSE <<W[base], W[base] + 1>>

calculate_value(W, base) ==
    IF base >= Len(W) + 1 THEN <<0, 0>>
    ELSE IF Tagged(W[base]) THEN <<Untag(W[base]), Untag(W[base + 1])>>
    ELSE <<W[base], W[base] + 1>>

increment(W, base) ==
    IF base < Len(W) + 1 /\ Tagged(W[base]) THEN base + 2 ELSE base + 1

\* for (const auto &range : *this): the ranges seen from position base on.
\* The walk stops at end; a position past end arises only behind an unpaired
\* tagged last word, which neither push_back nor a warranted adoption stores.
RECURSIVE IterFrom(_, _)
IterFrom(W, base) ==
    IF base >= Len(W) + 1 THEN <<>>
    ELSE <<calculate_value(W, base)>> \o IterFrom(W, increment(W, base))

Iterate(W) == IterFrom(W, 1)

\* ------------------------------------------------------------------------
\* IntegralRangeVector: [rangeVect, length]
\* ------------------------------------------------------------------------
IntegralRangeVector == [rangeVect |-> <<>>, length |-> 0]

FromWords(W) == [rangeVect |-> W, length |-> NULLOPT]

PushResult(W, len, failed) == [rangeVect |-> W, length |-> len, failed |-> failed]

push_back_range(c, first, second) ==
    LET W == c.rangeVect
        n == Len(W)
        d == second - first
        len1 == IF c.length # NULLOPT THEN ToSize(c.length + d) ELSE NULLOPT
    IN  IF Tagged(first) \/ Tagged(second) THEN PushResult(W, c.length, TRUE)
        ELSE IF n > 0 /\ d > 0 /\ Tagged(W[n]) /\ Untag(W[n]) = first
            THEN PushResult([W EXCEPT ![n] = ToT(Tag(second))], len1, FALSE)
        ELSE IF n > 0 /\ d > 0 /\ ~Tagged(W[n]) /\ Untag(W[n]) = first - 1
            THEN PushResult(Append([W EXCEPT ![n] = Tag(W[n])], ToT(Tag(second))),
                            len1, FALSE)
        ELSE IF d = 0 THEN PushResult(W, len1, FALSE)
        ELSE IF d = 1 THEN PushResult(Append(W, first), len1, FALSE)
        ELSE PushResult(W \o <<ToT(Tag(first)), ToT(Tag(second))>>, len1, FALSE)

\* push_back(val) without the branch that merges into an untagged tail word
push_back_value_no_merge(c, val) ==
    LET W == c.rangeVect
        n == Len(W)
        len1 == IF c.length # NULLOPT THEN ToSize(c.length + 1) ELSE NULLOPT
    IN  IF Tagged(val) THEN PushResult(W, c.length, TRUE)
        ELSE IF n > 0 /\ Tagged(W[n]) /\ Untag(W[n]) = val
            THEN PushResult([W EXCEPT ![n] = ToT(Tag(val + 1))], len1, FALSE)
        ELSE PushResult(Append(W, val), len1, FALSE)

push_back_value(c, val) ==
    LET W == c.rangeVect
        n == Len(W)
        len1 == IF c.length # NULLOPT THEN ToSize(c.length + 1) ELSE NULLOPT
    IN  IF Tagged(val) THEN PushResult(W, c.length, TRUE)
        ELSE IF n > 0 /\ Tagged(W[n]) /\ Untag(W[n]) = val
            THEN PushResult([W EXCEPT ![n] = ToT(Tag(val + 1))], len1, FALSE)
        ELSE IF n > 0 /\ ~Tagged(W[n]) /\ Untag(W[n]) = val - 1
            THEN PushResult(Append([W EXCEPT ![n] = Tag(W[n])], ToT(Tag(val + 1))),
                            len1, FALSE)
        ELSE PushResult(Append(W, val), len1, FALSE)

\* operator==
Equals(c1, c2) == c1.rangeVect = c2.rangeVect

getBase(c) == c.rangeVect

RECURSIVE SumRanges(_, _)
SumRanges(rs, acc) ==
    IF rs = <<>> THEN acc
    ELSE SumRanges(Tail(rs), ToSize(acc + (Head(rs)[2] - Head(rs)[1])))

\* length(): the value returned and the cache it leaves behind
length(c) ==
    IF c.length = NULLOPT THEN SumRanges(Iterate(c.rangeVect), 0) ELSE c.length

AfterLength(c) == [c EXCEPT !.length = length(c)]

Enumerate(a, b) == [k \in 1..(IF b > a THEN b - a ELSE 0) |-> a + k - 1]

\* toVector(): [ok, seq]; ok is FALSE when a reserve() request exceeds
\* max_size() and std::length_error leaves the call.
RECURSIVE ToVectorLoop(_, _)
ToVectorLoop(rs, result) ==
    IF rs = <<>> THEN [ok |-> TRUE, seq |-> result]
    ELSE LET r == Head(rs)
             want == ToSize(Len(result) + (r[2] - r[1]))
         IN  IF want > max_size THEN [ok |-> FALSE, seq |-> result]
             ELSE ToVectorLoop(Tail(rs), result \o Enumerate(r[1], r[2]))

toVector(c) == ToVectorLoop(Iterate(c.rangeVect), <<>>)

\* ------------------------------------------------------------------------
\* RangeMerger.h.  A container is of kind "vector" (std::vector<T>, a sequence
\* of values) or "irv" (IntegralRangeVector<T>); an iterator is a position in
\* 1..end.  Indices of inputs are 1-based here (0-based in the source).
\* ------------------------------------------------------------------------
EmptyCont(kind) == IF kind = "vector" THEN <<>> ELSE IntegralRangeVector

begin(kind, cont) == 1

end(kind, cont) ==
    IF kind = "vector" THEN Len(cont) + 1 ELSE Len(cont.rangeVect) + 1

get_first(kind, cont, it) ==
    IF kind = "vector" THEN cont[it] ELSE calculate_value(cont.rangeVect, it)[1]

get_last(kind, cont, it) ==
    IF kind = "vector" THEN ToT(cont[it] + 1) ELSE calculate_value(cont.rangeVect, it)[2]

\* ++it
advance(kind, cont, it) ==
    IF kind = "vector" THEN it + 1 ELSE increment(cont.rangeVect, it)

\* insert_back(output, range): [out, failed]
insert_back(kind, output, range) ==
    IF kind = "vector"
    THEN [out |-> output \o Enumerate(range[1], range[2]), failed |-> FALSE]
    ELSE LET r == push_back_range(output, range[1], range[2])
         IN  [out |-> [rangeVect |-> r.rangeVect, length |-> r.length],
              failed |-> r.failed]

NoPending == <<>>

\* the locals with curRangeBegin initialised like curRangeEnd
Locals_begin_at_max(kind, its) ==
    [iters |-> its, curRangeBegin |-> TMax, curRangeEnd |-> TMax,
     pendingRange |-> NoPending, containerToForward |-> 1,
     result |-> EmptyCont(kind), at |-> "loop"]

\* the local variables of one call of intersect_ranges / unite_ranges
Locals(kind, its) ==
    [iters |-> its, curRangeBegin |-> 0, curRangeEnd |-> TMax,
     pendingRange |-> NoPending, containerToForward |-> 1,
     result |-> EmptyCont(kind), at |-> "loop"]

Returned(kind, out) ==
    [iters |-> <<>>, curRangeBegin |-> 0, curRangeEnd |-> TMax,
     pendingRange |-> NoPending, containerToForward |-> 1,
     result |-> out, at |-> "returned"]

\* intersect_ranges without the early return for an empty input
intersect_enter_no_empty_check(kind, rngs) ==
    IF rngs = <<>> THEN Returned(kind, EmptyCont(kind))
    ELSE IF Len(rngs) = 1 THEN Returned(kind, rngs[1])
    ELSE Locals(kind, [i \in 1..Len(rngs) |-> begin(kind, rngs[i])])

\* intersect_ranges without the early return for a single input
intersect_enter_no_single(kind, rngs) ==
    IF rngs = <<>> THEN Returned(kind, EmptyCont(kind))
    ELSE IF \E i \in 1..Len(rngs) : begin(kind, rngs[i]) = end(kind, rngs[i])
        THEN Returned(kind, EmptyCont(kind))
    ELSE Locals(kind, [i \in 1..Len(rngs) |-> begin(kind, rngs[i])])

\* intersect_ranges up to the first pass of for(;;)
intersect_enter(kind, rngs) ==
    IF rngs = <<>> THEN Returned(kind, EmptyCont(kind))
    ELSE IF Len(rngs) = 1 THEN Returned(kind, rngs[1])
    ELSE IF \E i \in 1..Len(rngs) : begin(kind, rngs[i]) = end(kind, rngs[i])
        THEN Returned(kind, EmptyCont(kind))
    ELSE Locals(kind, [i \in 1..Len(rngs) |-> begin(kind, rngs[i])])

\* unite_ranges up to the first pass of for(;;)
unite_enter(kind, rngs) ==
    IF rngs = <<>> THEN Returned(kind, EmptyCont(kind))
    ELSE IF Len(rngs) = 1 THEN Returned(kind, rngs[1])
    ELSE Locals(kind, [i \in 1..Len(rngs) |-> begin(kind, rngs[i])])

\* the scan of intersect_ranges over inputs i..N: [b, e, k, failed]
RECURSIVE IntersectScan(_, _, _, _, _, _, _)
IntersectScan(kind, rngs, its, i, b, e, k) ==
    IF i > Len(rngs) THEN [b |-> b, e |-> e, k |-> k, failed |-> FALSE]
    ELSE IF its[i] = end(kind, rngs[i]) THEN [b |-> b, e |-> e, k |-> k, failed |-> TRUE]
    ELSE LET first == get_first(kind, rngs[i], its[i])
             last == get_last(kind, rngs[i], its[i])
         IN  IntersectScan(kind, rngs, its, i + 1,
                           IF first > b THEN first ELSE b,
                           IF last < e THEN last ELSE e,
                           IF last < e THEN i ELSE k)

\* one pass of the for(;;) of intersect_ranges
intersect_step(kind, rngs, l) ==
    LET sc == IntersectScan(kind, rngs, l.iters, 1, l.curRangeBegin,
                            l.curRangeEnd, l.containerToForward)
        window == sc.b < sc.e
        flushFirst == window /\ l.pendingRange # NoPending /\ l.pendingRange[2] # sc.b
        ins1 == IF flushFirst THEN insert_back(kind, l.result, l.pendingRange)
                ELSE [out |-> l.result, failed |-> FALSE]
        pending1 == IF ~window THEN l.pendingRange
                    ELSE IF l.pendingRange # NoPending /\ l.pendingRange[2] = sc.b
                        THEN <<l.pendingRange[1], sc.e>>
                    ELSE <<sc.b, sc.e>>
        its1 == [l.iters EXCEPT ![sc.k] = advance(kind, rngs[sc.k], l.iters[sc.k])]
        atEnd == its1[sc.k] = end(kind, rngs[sc.k])
        ins2 == IF atEnd /\ pending1 # NoPending THEN insert_back(kind, ins1.out, pending1)
                ELSE [out |-> ins1.out, failed |-> FALSE]
    IN  IF sc.failed THEN [l EXCEPT !.at = "aborted"]
        ELSE IF ins1.failed
            THEN [l EXCEPT !.curRangeBegin = sc.b, !.curRangeEnd = sc.e,
                           !.containerToForward = sc.k, !.at = "aborted"]
        ELSE IF ins2.failed
            THEN [iters |-> its1, curRangeBegin |-> sc.b, curRangeEnd |-> TMax,
                  pendingRange |-> pending1, containerToForward |-> sc.k,
                  result |-> ins1.out, at |-> "aborted"]
        ELSE [iters |-> its1, curRangeBegin |-> sc.b, curRangeEnd |-> TMax,
              pendingRange |-> pending1, containerToForward |-> sc.k,
              result |-> ins2.out, at |-> IF atEnd THEN "returned" ELSE "loop"]

\* the scan of unite_ranges with its loop started at the second input
RECURSIVE UniteScan_from_second(_, _, _, _, _, _, _)
UniteScan_from_second(kind, rngs, its, i, b, e, k) ==
    IF i > Len(rngs) THEN [b |-> b, e |-> e, k |-> k]
    ELSE IF i = 1 \/ its[i] >= end(kind, rngs[i])
        THEN UniteScan_from_second(kind, rngs, its, i + 1, b, e, k)
    ELSE LET first == get_first(kind, rngs[i], its[i])
             last == get_last(kind, rngs[i], its[i])
         IN  IF first < b THEN UniteScan_from_second(kind, rngs, its, i + 1, first, last, i)
             ELSE UniteScan_from_second(kind, rngs, its, i + 1, b, e, k)

\* the scan of unite_ranges over inputs i..N: [b, e, k]
RECURSIVE UniteScan(_, _, _, _, _, _, _)
UniteScan(kind, rngs, its, i, b, e, k) ==
    IF i > Len(rngs) THEN [b |-> b, e |-> e, k |-> k]
    ELSE IF its[i] >= end(kind, rngs[i]) THEN UniteScan(kind, rngs, its, i + 1, b, e, k)
    ELSE LET first == get_first(kind, rngs[i], its[i])
             last == get_last(kind, rngs[i], its[i])
         IN  IF first < b THEN UniteScan(kind, rngs, its, i + 1, first, last, i)
             ELSE UniteScan(kind, rngs, its, i + 1, b, e, k)

\* one pass of the for(;;) of unite_ranges
unite_step(kind, rngs, l) ==
    LET sc == UniteScan(kind, rngs, l.iters, 1, TMax, TMax, 1)
        done == sc.e = TMax
        window == sc.b < sc.e
        flushFirst == window /\ l.pendingRange # NoPending /\ l.pendingRange[2] < sc.b
        pending1 == IF ~window THEN l.pendingRange
                    ELSE IF l.pendingRange = NoPending THEN <<sc.b, sc.e>>
                    ELSE IF l.pendingRange[2] >= sc.b
                        THEN (IF l.pendingRange[2] < sc.e
                              THEN <<l.pendingRange[1], sc.e>> ELSE l.pendingRange)
                    ELSE <<sc.b, sc.e>>
        ins == IF (done /\ l.pendingRange # NoPending) \/ (~done /\ flushFirst)
               THEN insert_back(kind, l.result, l.pendingRange)
               ELSE [out |-> l.result, failed |-> FALSE]
        its1 == [l.iters EXCEPT ![sc.k] = advance(kind, rngs[sc.k], l.iters[sc.k])]
    IN  IF ins.failed
            THEN [l EXCEPT !.curRangeBegin = sc.b, !.curRangeEnd = sc.e,
                           !.containerToForward = sc.k, !.at = "aborted"]
        ELSE IF done
            THEN [l EXCEPT !.curRangeBegin = sc.b, !.curRangeEnd = sc.e,
                           !.containerToForward = sc.k, !.result = ins.out,
                           !.at = "returned"]
        ELSE [iters |-> its1, curRangeBegin |-> sc.b, curRangeEnd |-> TMax,
              pendingRange |-> pending1, containerToForward |-> sc.k,
              result |-> ins.out, at |-> "loop"]

\* a whole call: the for(;;) is run until the function returns or aborts
RECURSIVE IntersectLoop(_, _, _)
IntersectLoop(kind, rngs, l) ==
    IF l.at # "loop" THEN l ELSE IntersectLoop(kind, rngs, intersect_step(kind, rngs, l))

intersect_ranges(kind, rngs) == IntersectLoop(kind, rngs, intersect_enter(kind, rngs))

RECURSIVE UniteLoop(_, _, _)
UniteLoop(kind, rngs, l) ==
    IF l.at # "loop" THEN l ELSE UniteLoop(kind, rngs, unite_step(kind, rngs, l))

unite_ranges(kind, rngs) == UniteLoop(kind, rngs, unite_enter(kind, rngs))

\* ------------------------------------------------------------------------
\* Word sequences a caller may hand to the adopting constructors: the caller
\* warrants the section-3 invariants (tagged words in pairs, a < b, strictly
\* ascending, non-touching, stored endpoints below MASK).
\* ------------------------------------------------------------------------
RECURSIVE PairedFrom(_, _)
PairedFrom(W, base) ==
    IF base > Len(W) THEN TRUE
    ELSE IF Tagged(W[base])
        THEN base + 1 <= Len(W) /\ Tagged(W[base + 1]) /\ PairedFrom(W, base + 2)
    ELSE PairedFrom(W, base + 1)

RangesOrdered(rs) ==
    /\ \A k \in 1..Len(rs) : rs[k][1] < rs[k][2]
    /\ \A k \in 1..(Len(rs) - 1) : rs[k][2] < rs[k + 1][1]

WellFormed(W) == PairedFrom(W, 1) /\ RangesOrdered(Iterate(W))

\* the encodings of one range [a, b): an untagged word, or a tagged pair
Encodings(a, b) ==
    (IF b = a + 1 THEN {<<a>>} ELSE {}) \cup
    (IF b < mask THEN {<<Tag(a), Tag(b)>>} ELSE {})

\* the word sequences whose ranges start at lo or later, range by range
RECURSIVE WordsFrom(_)
WordsFrom(lo) ==
    {<<>>} \cup
    UNION {UNION {{enc \o rest : enc \in Encodings(a, b), rest \in WordsFrom(b + 1)} :
                  b \in (a + 1)..mask} : a \in lo..(mask - 1)}

WellFormedWords == {W \in WordsFrom(0) : Len(W) <= MaxWords /\ WellFormed(W)}

ValuesOf(rs) == UNION {{x \in 0..TMax : rs[k][1] <= x /\ x < rs[k][2]} : k \in 1..Len(rs)}

\* a well-formed sequence that also stores every length-1 range as one
\* untagged word, as push_back does
RECURSIVE NoUnitPairFrom(_, _)
NoUnitPairFrom(W, base) ==
    IF base >= Len(W) THEN TRUE
    ELSE IF Tagged(W[base])
        THEN Untag(W[base + 1]) # Untag(W[base]) + 1 /\ NoUnitPairFrom(W, base + 2)
    ELSE NoUnitPairFrom(W, base + 1)

Canonical(W) == WellFormed(W) /\ NoUnitPairFrom(W, 1)

\* ------------------------------------------------------------------------
\* State
\* ------------------------------------------------------------------------
VARIABLES
    arr,        \* arr[i]: the two IntegralRangeVector objects of the program
    vals,       \* vals[i]: the logical set of integers handed to arr[i] so far
    origin,     \* origin[i]: how arr[i] was constructed: "push" (empty, then
                \* push_back only), "canonical" or "warranted" (adopted words)
    lastPush,   \* lastPush[i]: the overload of the last push_back on arr[i]
    aborted,    \* an assert has failed
    inputs,     \* the logical input sets of the merge under way
    op,         \* "intersect" or "unite"
    kind,       \* the container type of the call under way
    ranges,     \* the argument of the call: one container per input set
    loc,        \* the local variables of the call, and where it stands
    vectorOut,  \* what the call on std::vector inputs returned
    iter        \* a const_iterator into arr[1], and what it has yielded

vecVars == <<arr, vals, origin, lastPush, aborted>>
mergeVars == <<inputs, op, kind, ranges, loc, vectorOut>>
iterVars == <<iter>>
vars == <<arr, vals, origin, lastPush, aborted, inputs, op, kind, ranges, loc, vectorOut, iter>>

Objs == {1, 2}

NoCall == [at |-> "none"]
NoOutput == [returned |-> FALSE, out |-> <<>>]
NoIter == [st |-> "none"]

\* the last endpoint of the logical tail range (0 for an empty set)
Hi(S) == IF S = {} THEN 0 ELSE (CHOOSE x \in S : \A y \in S : y <= x) + 1

Init ==
    /\ arr = [i \in Objs |-> IntegralRangeVector]
    /\ vals = [i \in Objs |-> {}]
    /\ origin = [i \in Objs |-> "push"]
    /\ lastPush = [i \in Objs |-> "none"]
    /\ aborted = FALSE
    /\ inputs = <<>> /\ op = "none" /\ kind = "none" /\ ranges = <<>>
    /\ loc = NoCall /\ vectorOut = NoOutput
    /\ iter = NoIter

\* arr[i] = IntegralRangeVector<T>()
DefaultConstruct(i) ==
    /\ ~aborted
    /\ arr' = [arr EXCEPT ![i] = IntegralRangeVector]
    /\ vals' = [vals EXCEPT ![i] = {}]
    /\ origin' = [origin EXCEPT ![i] = "push"]
    /\ lastPush' = [lastPush EXCEPT ![i] = "none"]
    /\ UNCHANGED <<aborted, mergeVars, iterVars>>

\* arr[i] = IntegralRangeVector<T>(vect), or (first, last) over the same words
ConstructFromWords(i) ==
    /\ ~aborted
    /\ \E W \in WellFormedWords :
        /\ arr' = [arr EXCEPT ![i] = FromWords(W)]
        /\ vals' = [vals EXCEPT ![i] = ValuesOf(Iterate(W))]
        /\ origin' = [origin EXCEPT ![i] = IF Canonical(W) THEN "canonical" ELSE "warranted"]
    /\ lastPush' = [lastPush EXCEPT ![i] = "none"]
    /\ UNCHANGED <<aborted, mergeVars, iterVars>>

\* arr[i] = arr[j]
CopyAssign(i, j) ==
    /\ ~aborted
    /\ i # j
    /\ arr' = [arr EXCEPT ![i] = arr[j]]
    /\ vals' = [vals EXCEPT ![i] = vals[j]]
    /\ origin' = [origin EXCEPT ![i] = origin[j]]
    /\ lastPush' = [lastPush EXCEPT ![i] = lastPush[j]]
    /\ UNCHANGED <<aborted, mergeVars, iterVars>>

\* the effect of one push_back call on arr[i]: r is what the overload computed
ApplyPush(i, r, added, overload) ==
    IF r.failed
    THEN /\ aborted' = TRUE
         /\ UNCHANGED <<arr, vals, origin, lastPush, mergeVars, iterVars>>
    ELSE /\ arr' = [arr EXCEPT ![i] = [rangeVect |-> r.rangeVect, length |-> r.length]]
         /\ vals' = [vals EXCEPT ![i] = @ \cup added]
         /\ lastPush' = [lastPush EXCEPT ![i] = overload]
         /\ UNCHANGED <<origin, aborted, mergeVars, iterVars>>

\* arr[i].push_back({first, second}), both endpoints with the tag bit clear
PushBackRange(i) ==
    /\ ~aborted
    /\ \E first \in 0..(mask - 1) : \E second \in first..(mask - 1) :
        /\ first >= Hi(vals[i])
        /\ ApplyPush(i, push_back_range(arr[i], first, second),
                     first..(second - 1), "range")

\* arr[i].push_back(val), val with the tag bit clear
PushBackValue(i) ==
    /\ ~aborted
    /\ \E val \in 0..(mask - 1) :
        /\ val >= Hi(vals[i])
        /\ ApplyPush(i, push_back_value(arr[i], val), {val}, "value")

\* arr[i].push_back({first, MASK}): a range of the representable values
\* first..MASK-1, whose last endpoint is MASK itself
PushBackRangeToMask(i) ==
    /\ ~aborted
    /\ \E first \in 0..(mask - 1) :
        /\ first >= Hi(vals[i])
        /\ ApplyPush(i, push_back_range(arr[i], first, mask),
                     first..(mask - 1), "range")

\* arr[i].length()
LengthCall(i) ==
    /\ ~aborted
    /\ arr' = [arr EXCEPT ![i] = AfterLength(arr[i])]
    /\ UNCHANGED <<vals, origin, lastPush, aborted, mergeVars, iterVars>>

Next ==
    \E i \in Objs :
        \/ DefaultConstruct(i)
        \/ ConstructFromWords(i)
        \/ \E j \in Objs : CopyAssign(i, j)
        \/ PushBackRange(i)
        \/ PushBackValue(i)
        \/ PushBackRangeToMask(i)
        \/ LengthCall(i)

Spec == Init /\ [][Next]_vars

\* ------------------------------------------------------------------------
\* Appends below the stored tail: the caller hands push_back a value, or a
\* range, that starts before the last endpoint of the stored tail range, on
\* a container that every call so far has appended to in ascending order.
\* ------------------------------------------------------------------------
\* the last endpoint of the stored tail range (0 for an empty container)
TailLast(c) ==
    LET rs == Iterate(c.rangeVect)
    IN  IF rs = <<>> THEN 0 ELSE rs[Len(rs)][2]

\* the effect of such a call on arr[i]
ApplyPushBelowTail(i, r, added, overload) ==
    IF r.failed
    THEN /\ aborted' = TRUE
         /\ UNCHANGED <<arr, vals, origin, lastPush, mergeVars, iterVars>>
    ELSE /\ arr' = [arr EXCEPT ![i] = [rangeVect |-> r.rangeVect, length |-> r.length]]
         /\ vals' = [vals EXCEPT ![i] = @ \cup added]
         /\ origin' = [origin EXCEPT ![i] = "unordered"]
         /\ lastPush' = [lastPush EXCEPT ![i] = overload]
         /\ UNCHANGED <<aborted, mergeVars, iterVars>>

\* arr[i].push_back(val), val below the tail's last endpoint
PushBackValueBelowTail(i) ==
    /\ ~aborted
    /\ origin[i] = "push"
    /\ \E val \in 0..(mask - 1) :
        /\ val < TailLast(arr[i])
        /\ ApplyPushBelowTail(i, push_back_value(arr[i], val), {val}, "value")

\* arr[i].push_back({first, second}), first below the tail's last endpoint
PushBackRangeBelowTail(i) ==
    /\ ~aborted
    /\ origin[i] = "push"
    /\ \E first \in 0..(mask - 1) : \E second \in (first + 1)..(mask - 1) :
        /\ first < TailLast(arr[i])
        /\ ApplyPushBelowTail(i, push_back_range(arr[i], first, second),
                              first..(second - 1), "range")

NextAppend ==
    \E i \in Objs :
        \/ DefaultConstruct(i)
        \/ PushBackRange(i)
        \/ PushBackValue(i)
        \/ PushBackValueBelowTail(i)
        \/ PushBackRangeBelowTail(i)

SpecAppend == Init /\ [][NextAppend]_vars

\* ------------------------------------------------------------------------
\* const_iterator objects over arr[1].  The iterator is the record
\* [st, base, cur, seen, ret, from, lastOp, walk]: base is _base_iter, cur is
\* _current_value, seen the values the iterator has stood on before end, ret
\* the position of the iterator the last operator returned, from the position
\* the last operator++ was applied at, and walk is TRUE while every
\* operator++ so far was applied before end (for (it = begin; it != end; ++it)).
\* ------------------------------------------------------------------------
\* the values calculate_value() may leave in _current_value: the second word
\* of a tagged pair is read from position base + 1 whether or not it is in W
CurrentValues(W, base) ==
    IF base <= Len(W) /\ Tagged(W[base]) /\ base + 1 > Len(W)
    THEN {<<Untag(W[base]), Untag(w)>> : w \in Words}
    ELSE {calculate_value(W, base)}

\* operator++ steps the std::vector iterator when it already is at end or
\* behind it: undefined; the builds either move the pointer or stop in the
\* library's iterator check
StepsPastEnd(W, base) == increment(W, base) > Len(W) + 1

Incremented(it, W, lastOp) ==
    LET nb == increment(W, it.base)
        wk == it.walk /\ it.base < Len(W) + 1
    IN  {[st |-> "live", base |-> nb, cur |-> c,
          seen |-> IF nb < Len(W) + 1 THEN Append(it.seen, c) ELSE it.seen,
          ret |-> IF lastOp = "postfix" THEN it.base ELSE nb,
          from |-> it.base, lastOp |-> lastOp, walk |-> wk] :
             c \in CurrentValues(W, nb)}
        \cup (IF StepsPastEnd(W, it.base)
              THEN {[it EXCEPT !.st = "trapped", !.from = it.base,
                               !.lastOp = lastOp, !.walk = wk]}
              ELSE {})

\* it = arr[1].begin()
Begin ==
    /\ ~aborted
    /\ \E c \in CurrentValues(arr[1].rangeVect, 1) :
        iter' = [st |-> "live", base |-> 1, cur |-> c,
                 seen |-> IF arr[1].rangeVect # <<>> THEN <<c>> ELSE <<>>,
                 ret |-> 1, from |-> 1, lastOp |-> "begin", walk |-> TRUE]
    /\ UNCHANGED <<vecVars, mergeVars>>

\* ++it
PrefixIncrement ==
    /\ iter.st = "live"
    /\ iter.base < Len(arr[1].rangeVect) + 1 + MaxPastEnd
    /\ iter' \in Incremented(iter, arr[1].rangeVect, "prefix")
    /\ UNCHANGED <<vecVars, mergeVars>>

\* it++
PostfixIncrement ==
    /\ iter.st = "live"
    /\ iter.base < Len(arr[1].rangeVect) + 1 + MaxPastEnd
    /\ iter' \in Incremented(iter, arr[1].rangeVect, "postfix")
    /\ UNCHANGED <<vecVars, mergeVars>>

\* the iterator goes out of scope
Release ==
    /\ iter.st = "live"
    /\ iter' = NoIter
    /\ UNCHANGED <<vecVars, mergeVars>>

\* the container is changed only while no iterator into it is alive
NextIter ==
    \/ iter.st = "none" /\ DefaultConstruct(1)
    \/ iter.st = "none" /\ ConstructFromWords(1)
    \/ iter.st = "none" /\ PushBackRange(1)
    \/ iter.st = "none" /\ PushBackValue(1)
    \/ Begin
    \/ PrefixIncrement
    \/ PostfixIncrement
    \/ Release

SpecIter == Init /\ [][NextIter]_vars

\* ------------------------------------------------------------------------
\* The merge program: one set of logical inputs is merged as plain value
\* vectors and then, when every value is below MASK, as IntegralRangeVectors
\* filled through push_back.
\* ------------------------------------------------------------------------
Values == 0..(TMax - 1)

\* the subsets of S with at most k elements
RECURSIVE SubsetsUpTo(_, _)
SubsetsUpTo(S, k) ==
    IF k = 0 \/ S = {} THEN {{}}
    ELSE LET x == CHOOSE y \in S : \A z \in S : y <= z
         IN  SubsetsUpTo(S \ {x}, k) \cup {T \cup {x} : T \in SubsetsUpTo(S \ {x}, k - 1)}

\* the sequences of n input sets holding at most budget values in all
RECURSIVE InputsOf(_, _)
InputsOf(n, budget) ==
    IF n = 0 THEN {<<>>}
    ELSE UNION {{<<S>> \o rest : rest \in InputsOf(n - 1, budget - Cardinality(S))} :
                S \in SubsetsUpTo(Values, budget)}

RECURSIVE SortedSeq(_)
SortedSeq(S) ==
    IF S = {} THEN <<>>
    ELSE LET x == CHOOSE y \in S : \A z \in S : y <= z
         IN  <<x>> \o SortedSeq(S \ {x})

\* an IntegralRangeVector filled by push_back(val) for the values of q in turn
RECURSIVE PushAll(_, _)
PushAll(c, q) ==
    IF q = <<>> THEN c
    ELSE LET r == push_back_value(c, Head(q))
         IN  PushAll([rangeVect |-> r.rangeVect, length |-> r.length], Tail(q))

BeforeCall == [at |-> "call"]

InitMerge ==
    /\ arr = [i \in Objs |-> IntegralRangeVector]
    /\ vals = [i \in Objs |-> {}]
    /\ origin = [i \in Objs |-> "push"]
    /\ lastPush = [i \in Objs |-> "none"]
    /\ aborted = FALSE
    /\ \E n \in 0..MaxInputs : inputs \in InputsOf(n, MaxTotal)
    /\ op \in {"intersect", "unite"}
    /\ kind = "vector"
    /\ ranges = [i \in 1..Len(inputs) |-> SortedSeq(inputs[i])]
    /\ loc = BeforeCall
    /\ vectorOut = NoOutput
    /\ iter = NoIter

\* intersect_ranges(ranges) / unite_ranges(ranges) is entered
Enter ==
    /\ loc.at = "call"
    /\ loc' = IF op = "intersect" THEN intersect_enter(kind, ranges)
                                  ELSE unite_enter(kind, ranges)
    /\ UNCHANGED <<inputs, op, kind, ranges, vectorOut, vecVars, iterVars>>

IntersectStep ==
    /\ loc.at = "loop" /\ op = "intersect"
    /\ loc' = intersect_step(kind, ranges, loc)
    /\ UNCHANGED <<inputs, op, kind, ranges, vectorOut, vecVars, iterVars>>

UniteStep ==
    /\ loc.at = "loop" /\ op = "unite"
    /\ loc' = unite_step(kind, ranges, loc)
    /\ UNCHANGED <<inputs, op, kind, ranges, vectorOut, vecVars, iterVars>>

\* the same logical inputs are handed over as IntegralRangeVectors
CallOnRangeVectors ==
    /\ kind = "vector" /\ loc.at = "returned"
    /\ \A i \in 1..Len(inputs) : \A x \in inputs[i] : x < mask
    /\ vectorOut' = [returned |-> TRUE, out |-> loc.result]
    /\ kind' = "irv"
    /\ ranges' = [i \in 1..Len(inputs) |-> PushAll(IntegralRangeVector, SortedSeq(inputs[i]))]
    /\ loc' = BeforeCall
    /\ UNCHANGED <<inputs, op, vecVars, iterVars>>

NextMerge ==
    \/ Enter
    \/ IntersectStep
    \/ UniteStep
    \/ CallOnRangeVectors

SpecMerge == InitMerge /\ [][NextMerge]_vars

\* ------------------------------------------------------------------------
\* Reference notions the properties are stated against
\* ------------------------------------------------------------------------
\* the decoding table of the data model: an untagged word w is [w, w+1), two
\* consecutive tagged words a|MASK, b|MASK are [a, b)
RECURSIVE Decode(_)
Decode(W) ==
    IF W = <<>> THEN <<>>
    ELSE IF ~Tagged(W[1]) THEN <<<<W[1], W[1] + 1>>>> \o Decode(Tail(W))
    ELSE IF Len(W) = 1 THEN <<<<Untag(W[1]), Untag(W[1])>>>>
    ELSE <<<<Untag(W[1]), Untag(W[2])>>>> \o Decode(SubSeq(W, 3, Len(W)))

RECURSIVE DecodedSum(_)
DecodedSum(rs) == IF rs = <<>> THEN 0 ELSE (Head(rs)[2] - Head(rs)[1]) + DecodedSum(Tail(rs))

StrictlyAscending(q) == \A k \in 1..(Len(q) - 1) : q[k] < q[k + 1]

Elements(q) == {q[k] : k \in 1..Len(q)}

\* the maximal run of consecutive integers at the top of S starts here
RunStart(S) == CHOOSE a \in S : /\ \A x \in a..(Hi(S) - 1) : x \in S
                                /\ (a - 1) \notin S

\* ------------------------------------------------------------------------
\* C3.  A container built from empty by push_back calls that honour the
\* preconditions always holds a well-formed word sequence: tagged words in
\* consecutive pairs, every decoded range [a,b) with a < b, decoded ranges
\* strictly ascending and non-touching.
\* ------------------------------------------------------------------------
C3_PushKeepsWellFormed ==
    \A i \in Objs :
        origin[i] = "push" =>
            /\ PairedFrom(arr[i].rangeVect, 1)
            /\ RangesOrdered(Decode(arr[i].rangeVect))

\* ------------------------------------------------------------------------
\* C4.  Whenever length() may be called it returns the sum of (last - first)
\* over the ranges decoded from the current W, and a cached _length is never
\* stale.
\* ------------------------------------------------------------------------
C4_LengthIsDecodedSum ==
    \A i \in Objs :
        /\ length(arr[i]) = DecodedSum(Decode(arr[i].rangeVect))
        /\ arr[i].length # NULLOPT =>
               arr[i].length = DecodedSum(Decode(arr[i].rangeVect))

\* ------------------------------------------------------------------------
\* C5.  toVector() returns a strictly ascending sequence holding exactly the
\* values handed to the container, with length() elements.
\* ------------------------------------------------------------------------
C5_ToVectorExact ==
    \A i \in Objs :
        LET tv == toVector(arr[i])
        IN  /\ tv.ok
            /\ StrictlyAscending(tv.seq)
            /\ Elements(tv.seq) = vals[i]
            /\ Len(tv.seq) = length(arr[i])

\* ------------------------------------------------------------------------
\* C6.  For any two containers reachable through the public API,
\* adopted word sequences included, operator== is true exactly when the two
\* toVector() results are equal, and the same logical set compares equal.
\* ------------------------------------------------------------------------
C6_EqualsIffSameVector ==
    /\ Equals(arr[1], arr[2]) <=> (toVector(arr[1]) = toVector(arr[2]))
    /\ vals[1] = vals[2] => Equals(arr[1], arr[2])

\* ------------------------------------------------------------------------
\* C7.  Canonicalization: two containers built from empty by push_back calls
\* that add up to the same logical set hold identical word sequences; no
\* length-1 range is stored as a tagged pair and no two adjacent stored
\* ranges touch.
\* ------------------------------------------------------------------------
NoTouching(rs) == \A k \in 1..(Len(rs) - 1) : rs[k][2] # rs[k + 1][1]

C7_Canonicalization ==
    /\ (origin[1] = "push" /\ origin[2] = "push" /\ vals[1] = vals[2]) =>
           getBase(arr[1]) = getBase(arr[2])
    /\ \A i \in Objs :
           origin[i] = "push" =>
               /\ NoUnitPairFrom(arr[i].rangeVect, 1)
               /\ NoTouching(Decode(arr[i].rangeVect))

\* the same set of three or more integers reached by a sequence ending in
\* the value overload and by one ending in the range overload
C7_Witness ==
    /\ origin[1] = "push" /\ origin[2] = "push"
    /\ lastPush[1] = "value" /\ lastPush[2] = "range"
    /\ vals[1] = vals[2] /\ Cardinality(vals[1]) >= 3
    /\ getBase(arr[1]) = getBase(arr[2])

\* ------------------------------------------------------------------------
\* C8.  For every reachable container and every v in [0, MASK) not below the
\* tail's last endpoint, push_back(pair(v, v+1)) and push_back(v) are both
\* accepted and leave the same W and the same length().
\* ------------------------------------------------------------------------
C8_UnitRangeEqualsValue ==
    \A i \in Objs : \A v \in 0..(mask - 1) :
        v >= Hi(vals[i]) =>
            LET r == push_back_range(arr[i], v, v + 1)
                s == push_back_value(arr[i], v)
            IN  /\ ~r.failed /\ ~s.failed
                /\ r.rangeVect = s.rangeVect
                /\ r.length = s.length

\* ------------------------------------------------------------------------
\* C9.  Coalescing on touch: when the logical tail of a push-built container
\* is the freshly appended range [a,b) and a piece [b,c), c > b, is appended
\* (as a range, or as the value b when c = b+1), the container then ends in
\* the single decoded range (a,c), stored as the two tagged words a|MASK,
\* c|MASK; and when pieces that touch one another cover 0..n-1, n >= 2, the
\* container iterates exactly one range (0,n) and length() is n.
\* ------------------------------------------------------------------------
TouchingPush(i) ==
    /\ origin[i] = "push" /\ origin'[i] = "push"
    /\ vals[i] # {}
    /\ vals'[i] # vals[i]
    /\ \E c \in 1..mask : vals'[i] = vals[i] \cup (Hi(vals[i])..(c - 1))

CoalescedTail(i) ==
    LET W == arr'[i].rangeVect
        a == RunStart(vals[i])
        c == Hi(vals'[i])
        rs == Iterate(W)
    IN  /\ Len(W) >= 2
        /\ SubSeq(W, Len(W) - 1, Len(W)) = <<Tag(a), Tag(c)>>
        /\ rs[Len(rs)] = <<a, c>>
        /\ (a = 0 => rs = <<<<0, c>>>> /\ length(arr'[i]) = c)

C9_CoalesceOnTouch == [][\A i \in Objs : TouchingPush(i) => CoalescedTail(i)]_vars

\* ------------------------------------------------------------------------
\* Properties of the merge functions
\* ------------------------------------------------------------------------
\* what the returned container enumerates: [ok, seq]
Enumerated(k, out) == IF k = "vector" THEN [ok |-> TRUE, seq |-> out] ELSE toVector(out)

InEvery == {x \in Values : \A i \in 1..Len(inputs) : x \in inputs[i]}
InSome == {x \in Values : \E i \in 1..Len(inputs) : x \in inputs[i]}

Exactly(S) == [ok |-> TRUE, seq |-> SortedSeq(S)]

\* the containers handed to the call hold the logical inputs in ascending,
\* well-formed order
ValidInputs ==
    \A i \in 1..Len(inputs) :
        IF kind = "vector" THEN ranges[i] = SortedSeq(inputs[i])
        ELSE /\ WellFormed(ranges[i].rangeVect)
             /\ ValuesOf(Decode(ranges[i].rangeVect)) = inputs[i]

\* ------------------------------------------------------------------------
\* C1.  With two or more valid inputs intersect_ranges returns, for plain value
\* vectors and for IntegralRangeVectors alike, a container that enumerates
\* exactly the values present in every input.
\* ------------------------------------------------------------------------
C1_IntersectExact ==
    (op = "intersect" /\ Len(inputs) >= 2 /\ ValidInputs) =>
        /\ loc.at # "aborted"
        /\ loc.at = "returned" => Enumerated(kind, loc.result) = Exactly(InEvery)

\* ------------------------------------------------------------------------
\* C2.  With two or more inputs that do not hold numeric_max(T), unite_ranges
\* returns a container that enumerates exactly the values present in at
\* least one input.
\* ------------------------------------------------------------------------
C2_UniteExact ==
    (op = "unite" /\ Len(inputs) >= 2 /\ ValidInputs) =>
        /\ loc.at # "aborted"
        /\ loc.at = "returned" => Enumerated(kind, loc.result) = Exactly(InSome)

\* ------------------------------------------------------------------------
\* C10.  For the same logical inputs, the call on valid IntegralRangeVectors
\* returns a container whose toVector() equals, element for element, what
\* the call on plain value vectors returned.
\* ------------------------------------------------------------------------
C10_RangeOutputMatchesVectorOutput ==
    (kind = "irv" /\ ValidInputs /\ loc.at \in {"returned", "aborted"}) =>
        /\ loc.at = "returned"
        /\ toVector(loc.result) = [ok |-> TRUE, seq |-> vectorOut.out]

\* ------------------------------------------------------------------------
\* Outcomes of whole calls, for the relational properties
\* ------------------------------------------------------------------------
\* what a finished call hands back: the words of an IntegralRangeVector, the
\* values of a plain vector, or nothing when an assert stopped it
OutWords(k, out) == IF k = "vector" THEN out ELSE out.rangeVect

Outcome(k, l) ==
    [at |-> l.at, out |-> IF l.at = "returned" THEN OutWords(k, l.result) ELSE <<>>]

Call(o, k, rngs) == IF o = "intersect" THEN intersect_ranges(k, rngs) ELSE unite_ranges(k, rngs)

Perms(n) == {p \in [1..n -> 1..n] : \A i, j \in 1..n : p[i] = p[j] => i = j}

Permuted(rngs, p) == [i \in 1..Len(rngs) |-> rngs[p[i]]]

InsertAt(rngs, pos, c) == SubSeq(rngs, 1, pos - 1) \o <<c>> \o SubSeq(rngs, pos, Len(rngs))

Finished == loc.at \in {"returned", "aborted"}

\* ------------------------------------------------------------------------
\* C11.  The outcome of intersect_ranges and of unite_ranges does not depend
\* on the order of the inputs: for valid inputs, the call on every permutation
\* of the collection ends as the call on the collection itself does, with
\* equal word sequences (IntegralRangeVector) or equal value sequences (plain
\* vector).
\* ------------------------------------------------------------------------
C11_OrderIndependent ==
    (Finished /\ ValidInputs) =>
        \A p \in Perms(Len(ranges)) :
            Outcome(kind, Call(op, kind, Permuted(ranges, p))) = Outcome(kind, loc)

\* two different non-empty IntegralRangeVector inputs whose merge returned a
\* non-empty result, the same in the other order
C11_Witness ==
    /\ kind = "irv" /\ loc.at = "returned" /\ ValidInputs
    /\ Len(inputs) = 2 /\ inputs[1] # {} /\ inputs[2] # {} /\ inputs[1] # inputs[2]
    /\ loc.result.rangeVect # <<>>
    /\ Outcome(kind, Call(op, kind, <<ranges[2], ranges[1]>>)) = Outcome(kind, loc)

\* ------------------------------------------------------------------------
\* C12.  Adding an empty input to a call of unite_ranges, at any position,
\* does not change the output; this includes a collection of one input, whose
\* call is the early-return copy.
\* ------------------------------------------------------------------------
C12_UniteIgnoresEmpty ==
    (op = "unite" /\ Finished /\ ValidInputs /\ Len(ranges) >= 1) =>
        \A pos \in 1..(Len(ranges) + 1) :
            Outcome(kind, unite_ranges(kind, InsertAt(ranges, pos, EmptyCont(kind))))
                = Outcome(kind, loc)

\* ------------------------------------------------------------------------
\* C13.  With fewer than two inputs intersect_ranges and unite_ranges return
\* without entering the merge loop: an empty container for no input, the
\* input itself for one input.
\* ------------------------------------------------------------------------
C13_FewerThanTwoInputs ==
    (Len(ranges) < 2 /\ loc.at # "call") =>
        /\ loc.at = "returned"
        /\ loc.result = (IF Len(ranges) = 0 THEN EmptyCont(kind) ELSE ranges[1])

\* intersect_ranges returned its one non-empty IntegralRangeVector input
C13_Witness ==
    /\ op = "intersect" /\ kind = "irv" /\ Len(ranges) = 1
    /\ loc.at = "returned"
    /\ ranges[1].rangeVect # <<>>
    /\ loc.result = ranges[1]

\* ------------------------------------------------------------------------
\* C14.  With assertions compiled in, a push_back whose first endpoint (or
\* single value) is below the last endpoint of the stored tail range is
\* stopped by a failed check, as a value with the tag bit set is: the call
\* never completes by writing words into W.
\* ------------------------------------------------------------------------
C14_NonMonotoneAppendStopped ==
    [][\A i \in Objs :
          (PushBackValueBelowTail(i) \/ PushBackRangeBelowTail(i)) =>
              (aborted' /\ arr'[i] = arr[i])]_vars

\* ------------------------------------------------------------------------
\* C15.  Over a well-formed W, adopted or built by push_back, the walk from
\* begin with prefix or postfix increments stands on exactly the decoded
\* ranges of W in order (the ranges handed to push_back, for a container
\* built that way), reaches end after the last of them, never steps past end
\* and never reads a word outside W.
\* ------------------------------------------------------------------------
IsPrefixOf(q, r) == Len(q) <= Len(r) /\ q = SubSeq(r, 1, Len(q))

C15_WalkYieldsDecodedRanges ==
    LET W == arr[1].rangeVect
    IN  (iter.st # "none" /\ iter.walk /\ WellFormed(W)) =>
            /\ iter.st = "live"
            /\ iter.base <= Len(W) + 1
            /\ ~(iter.base <= Len(W) /\ Tagged(W[iter.base]) /\ iter.base + 1 > Len(W))
            /\ IsPrefixOf(iter.seen, Decode(W))
            /\ iter.base < Len(W) + 1 => iter.cur = iter.seen[Len(iter.seen)]
            /\ iter.base = Len(W) + 1 =>
                   /\ iter.seen = Decode(W)
                   /\ ValuesOf(iter.seen) = vals[1]

\* a walk with both kinds of increment has reached end over a container that
\* holds a tagged pair and an untagged word
C15_Witness ==
    LET W == arr[1].rangeVect
    IN  /\ iter.st = "live" /\ iter.walk /\ WellFormed(W)
        /\ iter.base = Len(W) + 1
        /\ iter.lastOp = "postfix"
        /\ Len(iter.seen) = 2 /\ Len(W) = 3
        /\ iter.seen = Decode(W)

MeetsPushPreconditions(out, range) ==
    /\ ~Tagged(range[1]) /\ ~Tagged(range[2])
    /\ range[1] < range[2]
    /\ out.rangeVect # <<>> => range[1] > TailLast(out)

C16_MergePushesWithinPreconditions ==
    (kind = "irv" /\ ValidInputs /\ loc.at # "call") =>
        /\ loc.at # "aborted"
        /\ WellFormed(loc.result.rangeVect)
        /\ (loc.at = "loop" /\ loc.pendingRange # NoPending) =>
               MeetsPushPreconditions(loc.result, loc.pendingRange)

\* ------------------------------------------------------------------------
\* C17.  During intersect_ranges and unite_ranges on valid inputs no iterator
\* is read or stepped while it is at its input's end: in intersect every
\* iterator is before end at every scan, and so is the one picked for the
\* step, even when containerToForward is carried over from the step before;
\* in unite the iterator stepped belongs to an input that had a range left.
\* ------------------------------------------------------------------------
BeforeEnd(i) == loc.iters[i] < end(kind, ranges[i])

C17_NoIteratorUsedAtEnd ==
    (loc.at = "loop" /\ ValidInputs) =>
        /\ \A i \in 1..Len(ranges) : loc.iters[i] <= end(kind, ranges[i])
        /\ op = "intersect" =>
               LET sc == IntersectScan(kind, ranges, loc.iters, 1, loc.curRangeBegin,
                                       loc.curRangeEnd, loc.containerToForward)
               IN  /\ \A i \in 1..Len(ranges) : BeforeEnd(i)
                   /\ ~sc.failed
                   /\ BeforeEnd(sc.k)
        /\ op = "unite" =>
               LET sc == UniteScan(kind, ranges, loc.iters, 1, TMax, TMax, 1)
               IN  sc.e # TMax => BeforeEnd(sc.k)

\* intersect_ranges is about to scan again after it has stepped the second
\* input, and the scan leaves containerToForward as the step before set it
C17_Witness ==
    /\ op = "intersect" /\ loc.at = "loop" /\ ValidInputs
    /\ Len(ranges) = 2
    /\ loc.iters[2] > 1
    /\ loc.containerToForward = 2
    /\ \A i \in 1..2 : BeforeEnd(i)
    /\ \A i \in 1..2 : get_last(kind, ranges[i], loc.iters[i]) = TMax

\* ------------------------------------------------------------------------
\* C18.  Every call of intersect_ranges and of unite_ranges on valid inputs
\* returns: intersect at the step where the iterator it stepped reaches its
\* end, unite at the step where no input has a range left, and a pending
\* range is flushed to the output before the return.
\* ------------------------------------------------------------------------
Flushed(k, out, range) ==
    IF k = "vector" THEN out # <<>> /\ out[Len(out)] + 1 = range[2]
    ELSE out.rangeVect # <<>> /\ TailLast(out) = range[2]

C18_ReturnsWhenExhausted ==
    (ValidInputs /\ Len(ranges) >= 2) =>
        /\ loc.at # "aborted"
        /\ (loc.at = "returned" /\ loc.iters # <<>>) =>
               /\ op = "intersect" =>
                      \E i \in 1..Len(ranges) : loc.iters[i] = end(kind, ranges[i])
               /\ op = "unite" =>
                      \A i \in 1..Len(ranges) : loc.iters[i] = end(kind, ranges[i])
               /\ loc.pendingRange # NoPending =>
                      Flushed(kind, loc.result, loc.pendingRange)

\* ------------------------------------------------------------------------
\* C19.  In intersect_ranges on ascending inputs curRangeBegin, which is not
\* reset between the steps, never decreases and after each scan is the
\* greatest first endpoint the iterators stand on; the step is the one a
\* variant that resets curRangeBegin to 0 before the scan would take.
\* ------------------------------------------------------------------------
MaxFirst ==
    LET F == {get_first(kind, ranges[i], loc.iters[i]) : i \in 1..Len(ranges)}
    IN  CHOOSE x \in F : \A y \in F : y <= x

C19_CarriedBeginIsMaxFirst ==
    (op = "intersect" /\ loc.at = "loop" /\ ValidInputs) =>
        LET sc == IntersectScan(kind, ranges, loc.iters, 1, loc.curRangeBegin,
                                loc.curRangeEnd, loc.containerToForward)
        IN  /\ sc.b >= loc.curRangeBegin
            /\ sc.b = MaxFirst
            /\ intersect_step(kind, ranges, [loc EXCEPT !.curRangeBegin = 0])
                   = intersect_step(kind, ranges, loc)

\* a scan that starts from a carried curRangeBegin above 0 and above the
\* first endpoint of one of the iterators
C19_Witness ==
    /\ op = "intersect" /\ loc.at = "loop" /\ ValidInputs
    /\ loc.curRangeBegin > 0
    /\ \E i \in 1..Len(ranges) : get_first(kind, ranges[i], loc.iters[i]) < loc.curRangeBegin
    /\ loc.curRangeBegin = MaxFirst

====
